---- MODULE Spec2Model ----
(***************************************************************************)
(* Token lifecycle of hono-auth: login / regenToken / logout over the      *)
(* user_tokens table, the JWT codec (oslo/jwt) and the bcrypt verifier.    *)
(* processToken runs inside an interactive Prisma transaction (PostgreSQL, *)
(* READ COMMITTED, row locks taken by UPDATE/DELETE), while                *)
(* createRefreshToken writes through the global client `db`, that is in    *)
(* its own autocommitted statement.                                        *)
(***************************************************************************)
EXTENDS Integers, Sequences, FiniteSets, TLC

\* ------------------------------------------------------------- bounds
\* The clock runs in ticks (Date.now()), TicksPerSec ticks to the second.
MaxTime == 5
TicksPerSec == 2
\* Token lifetimes in seconds, scaled down from 15 minutes and 30 days.
AccessTTL == 1
RefreshTTL == 2
\* Rows ever inserted in user_tokens, and processToken calls ever started.
MaxRecords == 3
MaxCalls == 2

MaxRegs == 2

MaxChain == 5

MaxAllowed == 2

\* ------------------------------------------------------------- constants
Secret == "JWT_SECRET"
OtherKey == "attacker-key"

ErrSchema == "Must be a valid username (3-32 characters) or email"

ErrRegistered == "Email or Username already registered!"

ErrUnique == "Unique constraint failed on the fields"

ErrValidate == "Failed to validate token."
ErrNoSubject == "Invalid or expired refresh token"
ErrReuse == "Refresh token is invalid or already revoked!"
ErrNotFound == "Record to update not found."
ErrAccess == "Failed to create access token."
ErrRefresh == "Failed to create refresh token."
ErrTransaction == "Transaction API error: Transaction already closed"
NoError == ""

CauseMalformed == "Invalid JWT"
CauseExpired == "Expired JWT"
CauseSignature == "Invalid signature"
NoCause == ""

\* ------------------------------------------------------------- credential verifier
\* bcrypt: a salted one-way hash; two hashes of one value differ in their salt.
\* bcrypt reads the first 72 bytes of its input and no more; the passwords of
\* the model are shorter and are taken whole.
passwordHash(value, salt) == [salt |-> salt, pre |-> value]

passwordVerify(value, hashedValue) == hashedValue.pre = value

\* ------------------------------------------------------------- user directory
\* prisma/samples/users.ts, as the seed script stores them (two of the four):
\* the password column holds the hash.
SeedUsers ==
  { [id |-> "u1", name |-> "Admin", email |-> "admin@me.com", username |-> "admin",
     password |-> passwordHash("secret", "u1"), role |-> "ADMIN", updatedAt |-> 0],
    [id |-> "u2", name |-> "User", email |-> "user@me.com", username |-> "user",
     password |-> passwordHash("secret", "u2"), role |-> "USER", updatedAt |-> 0] }

\* A role row without a parent (parentId NULL).
NoParent == ""

\* prisma/samples/roles.ts: SUPER ADMIN at the root, USER at the leaf.
SeedRoles ==
  { [name |-> "SUPER ADMIN", parent |-> NoParent],
    [name |-> "ADMIN", parent |-> "SUPER ADMIN"],
    [name |-> "MODERATOR", parent |-> "ADMIN"],
    [name |-> "USER", parent |-> "MODERATOR"] }

\* ------------------------------------------------------------- token codec
\* Math.floor(Date.now() / 1000)
EpochSeconds(t) == t \div TicksPerSec

\* createJWT("HS256", secret, {}, {subject, expiresIn, includeIssuedTimestamp}):
\* the token is a function of subject, iat, exp and the key alone.
createToken(userId, expiresIn, t) ==
  [wf |-> TRUE, sub |-> userId, iat |-> EpochSeconds(t),
   exp |-> EpochSeconds(t) + expiresIn, key |-> Secret]

\* Faulty variant: the subject option left out of the access token.
createAccessTokenNoSubject(userId, t) == createToken("", AccessTTL, t)

createAccessToken(userId, t) == createToken(userId, AccessTTL, t)

Malformed == [wf |-> FALSE, sub |-> "", iat |-> 0, exp |-> 0, key |-> ""]

Forge(tok) == [tok EXCEPT !.key = OtherKey]

\* Faulty variant: the expiry instant itself still counts as valid.
isWithinExpirationDateInclusive(exp, t) == t <= exp * TicksPerSec

\* oslo isWithinExpirationDate: Date.now() < expiresAt.getTime()
isWithinExpirationDate(exp, t) == t < exp * TicksPerSec

\* oslo validateJWT: parse, then expiry, then signature.
validateJWT(tok, t) ==
  IF ~tok.wf THEN [ok |-> FALSE, subject |-> "", cause |-> CauseMalformed]
  ELSE IF ~isWithinExpirationDate(tok.exp, t)
       THEN [ok |-> FALSE, subject |-> "", cause |-> CauseExpired]
  ELSE IF tok.key # Secret
       THEN [ok |-> FALSE, subject |-> "", cause |-> CauseSignature]
  ELSE [ok |-> TRUE, subject |-> tok.sub, cause |-> NoCause]

\* Faulty variant: the decode failure rethrown under the message of the reuse error.
validateTokenReuseMessage(tok, t) ==
  LET r == validateJWT(tok, t)
  IN  [ok |-> r.ok, subject |-> r.subject,
       error |-> IF r.ok THEN NoError ELSE ErrReuse, cause |-> r.cause]

\* validateToken: every failure is rethrown as one Error whose cause is oslo's.
validateToken(tok, t) ==
  LET r == validateJWT(tok, t)
  IN  [ok |-> r.ok, subject |-> r.subject,
       error |-> IF r.ok THEN NoError ELSE ErrValidate, cause |-> r.cause]

\* What bcrypt reads of a JWT, its first 72 bytes: the header (36 characters),
\* the dot and 35 characters of the payload {"sub": ..., "exp": ..., "iat": ...},
\* which reach into the subject (a generated id) and stop before the
\* timestamps and the signature.
first72Bytes(tok) == [wf |-> tok.wf, sub |-> tok.sub]

\* createRefreshToken's row: db.userToken.create({token, userId, issuedAt, expiresAt})
NewTokenRecord(id, userId, t) ==
  [id |-> id, userId |-> userId,
   token |-> passwordHash(first72Bytes(createToken(userId, RefreshTTL, t)), id),
   issuedAt |-> t, expiresAt |-> t + RefreshTTL * TicksPerSec, revoked |-> FALSE]

\* What the caller of login gets back: the pair, or the error thrown.
Rejected(error) ==
  [ok |-> FALSE, error |-> error, accessToken |-> Malformed, refreshToken |-> Malformed]

\* ------------------------------------------------------------- state
VARIABLES
  now,      \* the clock, in ticks
  users,    \* table users
  store,    \* table user_tokens: the committed rows
  nextId,   \* the id the next inserted row gets
  calls,    \* the processToken calls, by slot
  issued,   \* the tokens handed to callers so far
  validated, \* the last validateToken call made on its own: token, time, result
  roles,    \* table roles
  regs,     \* the register calls, by slot
  logged,   \* the last login call: its input and what the caller got back
  guard,    \* the roleMiddleware run in progress or last finished
  req       \* the last request through authMiddleware: what it set or answered

vars ==
  <<now, users, store, nextId, calls, issued, validated, roles, regs, logged, guard, req>>

\* The directory side of the state, which the token operations leave alone.
dirVars == <<roles, regs, logged, guard, req>>

Calls == 1 .. MaxCalls

IdleCall ==
  [op |-> "NONE", tok |-> Malformed, pc |-> "idle", userId |-> "", matched |-> 0,
   txRevoked |-> {}, txDeleted |-> {}, newId |-> 0, newTok |-> Malformed,
   newAccess |-> Malformed, error |-> NoError, cause |-> NoCause, stage |-> "",
   applied |-> {}, after |-> {}]

OpenPcs == {"tx", "matched", "revoked", "purged", "minted"}

InTransaction(c) == calls[c].pc \in OpenPcs

Finished(c) == calls[c].pc \in {"done", "failed"}

Ids(rows) == {r.id : r \in rows}

\* A row another open transaction has updated or deleted: its row lock is held
\* until that transaction commits or rolls back.
Locked(id, c) ==
  \E d \in Calls \ {c} :
    InTransaction(d) /\ id \in (calls[d].txRevoked \cup calls[d].txDeleted)

\* What a caller can present: a token it was handed, that token re-signed with
\* another key, or a string that is no JWT.
Presentable ==
  {i.tok : i \in issued}
    \cup {Forge(i.tok) : i \in {j \in issued : j.kind = "refresh"}}
    \cup {Malformed}

\* processToken's throw: the transaction callback rejects, Prisma rolls back.
Failed(c, stage, error, cause) ==
  [calls[c] EXCEPT !.pc = "failed", !.stage = stage, !.error = error,
                   !.cause = cause, !.txRevoked = {}, !.txDeleted = {}]

NoValidation == [tok |-> Malformed, at |-> -1, res |-> validateToken(Malformed, 0)]

Regs == 1 .. MaxRegs

NoData == [name |-> "", username |-> "", email |-> "", password |-> ""]

IdleReg ==
  [pc |-> "idle", data |-> NoData, role |-> "", newRole |-> {}, created |-> {},
   error |-> NoError, result |-> [name |-> "", email |-> ""], taken |-> FALSE,
   after |-> {}]

NoLogin ==
  [handle |-> "", password |-> "", at |-> -1, known |-> {}, res |-> Rejected(NoError)]

NoRequest ==
  [pc |-> "idle", tok |-> Malformed, status |-> 0, message |-> "", userId |-> "",
   userRole |-> ""]

IdleGuard ==
  [pc |-> "idle", userRole |-> "", allowed |-> <<>>, strict |-> "omitted",
   name |-> "", hierarchy |-> <<>>, message |-> ""]

Init ==
  /\ now = 0
  /\ users = SeedUsers
  /\ store = {}
  /\ nextId = 1
  /\ calls = [c \in Calls |-> IdleCall]
  /\ issued = {}
  /\ validated = NoValidation
  /\ roles = SeedRoles
  /\ regs = [r \in Regs |-> IdleReg]
  /\ logged = NoLogin
  /\ guard = IdleGuard
  /\ req = NoRequest

\* ------------------------------------------------------------- actions
Tick ==
  /\ now < MaxTime
  /\ now' = now + 1
  /\ UNCHANGED <<users, store, nextId, calls, issued, validated>>
  /\ UNCHANGED dirVars

\* Login handles: the seeded ones, the ones register is given, one that is
\* nobody's in each form, and one that is neither an email nor a username.
Emails == {"admin@me.com", "user@me.com", "new@me.com", "nobody@me.com"}

Usernames == {"admin", "user", "newbie", "nobody"}

Handles == Emails \cup Usernames \cup {"no"}

Passwords == {"secret", "wrong"}

\* Faulty variant: no handle is taken for an email (the username-only lookup).
isEmailNever(handle) == FALSE

\* /^[^\s@]+@[^\s@]+\.[^\s@]+$/ on the handles of the model
isEmail(handle) == handle \in Emails

\* /^[a-zA-Z0-9_]{3,32}$/ on the handles of the model
isUsername(handle) == handle \in Usernames

\* loginSchema.parse: the refine on the username field.
loginSchema(handle) == isEmail(handle) \/ isUsername(handle)

findUniqueUser(handle) ==
  {u \in users : IF isEmail(handle) THEN u.email = handle ELSE u.username = handle}

\* !user || !(await passwordVerify(inputPassword, user.password)), negated:
\* the user the credentials belong to, if any.
authenticate(handle, password) ==
  {u \in findUniqueUser(handle) : passwordVerify(password, u.password)}

\* Faulty variant: a message of its own when the handle is nobody's.
loginErrorByFactor(handle, password) ==
  IF findUniqueUser(handle) = {} THEN "User not found" ELSE "Invalid login credentials"

\* throw new Error("Invalid login credentials"): one message for either factor.
loginError(handle, password) == "Invalid login credentials"

loginResult(handle, password) ==
  IF ~loginSchema(handle) THEN Rejected(ErrSchema)
  ELSE IF authenticate(handle, password) = {} THEN Rejected(loginError(handle, password))
  ELSE LET u == CHOOSE u \in authenticate(handle, password) : TRUE
       IN  [ok |-> TRUE, error |-> NoError,
            accessToken |-> createAccessToken(u.id, now),
            refreshToken |-> createToken(u.id, RefreshTTL, now)]

\* login: look the user up by email or username, verify the password, mint the
\* access token and the refresh token (whose row is inserted at once).
login(handle, password) ==
  IF ~loginSchema(handle) \/ authenticate(handle, password) = {}
  THEN UNCHANGED <<now, users, store, nextId, calls, issued, validated>>
  ELSE \E u \in authenticate(handle, password) :
         /\ nextId <= MaxRecords
         /\ LET rec == NewTokenRecord(nextId, u.id, now)
            IN  /\ store' = store \cup {rec}
                /\ issued' = issued \cup
                     { [tok |-> createAccessToken(u.id, now), uid |-> u.id, kind |-> "access"],
                       [tok |-> createToken(u.id, RefreshTTL, now), uid |-> u.id, kind |-> "refresh"] }
         /\ nextId' = nextId + 1
         /\ UNCHANGED <<now, users, calls, validated>>

\* The login route with any input; the caller's view of the outcome is kept.
Login ==
  \E handle \in Handles, password \in Passwords :
    /\ login(handle, password)
    /\ logged' = [handle |-> handle, password |-> password, at |-> now,
                  known |-> {u.id : u \in {v \in users : handle \in {v.email, v.username}}},
                  res |-> loginResult(handle, password)]
    /\ UNCHANGED <<roles, regs, guard, req>>

\* One principal logging in, on any number of devices.
LoginOne == login("admin@me.com", "secret") /\ UNCHANGED dirVars

\* Every seeded principal logging in.
LoginAny == (\E u \in users : login(u.email, "secret")) /\ UNCHANGED dirVars

\* Faulty variant: a token counts only while its subject holds an active session row.
ValidateWithSession(tok) ==
  /\ validated' = [tok |-> tok, at |-> now,
                   res |-> IF \E row \in store : row.userId = tok.sub /\ ~row.revoked
                           THEN validateToken(tok, now)
                           ELSE validateToken(Malformed, now)]
  /\ UNCHANGED <<now, users, store, nextId, calls, issued>>
  /\ UNCHANGED dirVars

\* jwt.validateToken called on a bearer token, as authMiddleware does.
Validate(tok) ==
  /\ validated' = [tok |-> tok, at |-> now, res |-> validateToken(tok, now)]
  /\ UNCHANGED <<now, users, store, nextId, calls, issued>>
  /\ UNCHANGED dirVars

\* processToken, up to the transaction: jwt.validateToken and the subject check.
Start(c, action, tok) ==
  /\ calls[c].pc = "idle"
  /\ \A d \in Calls : d < c => calls[d].pc # "idle"
  /\ LET v == validateToken(tok, now)
         base == [calls[c] EXCEPT !.op = action, !.tok = tok,
                                  !.after = {d \in Calls : Finished(d)}]
     IN  calls' = [calls EXCEPT ![c] =
           IF ~v.ok THEN [base EXCEPT !.pc = "failed", !.stage = "decode",
                                      !.error = v.error, !.cause = v.cause]
           ELSE IF v.subject = ""
                THEN [base EXCEPT !.pc = "failed", !.stage = "decode",
                                  !.error = ErrNoSubject]
           ELSE [base EXCEPT !.pc = "tx", !.userId = v.subject]]
  /\ UNCHANGED <<now, users, store, nextId, issued, validated>>
  /\ UNCHANGED dirVars

\* prisma.userToken.findMany({userId, revoked: false, expiresAt: {gte: new Date()}})
findActive(userId, t) ==
  {r \in store : r.userId = userId /\ ~r.revoked /\ r.expiresAt >= t}

\* The records whose hash verifies the presented token.
Matching(tok, records) == {r \in records : passwordVerify(first72Bytes(tok), r.token)}

\* Faulty variant: a lookup without match sweeps the user's rows before it throws.
LookupSweeping(c) ==
  /\ calls[c].pc = "tx"
  /\ LET m == Matching(calls[c].tok, findActive(calls[c].userId, now))
     IN  IF m = {}
         THEN /\ calls' = [calls EXCEPT ![c] = Failed(c, "lookup", ErrReuse, NoCause)]
              /\ store' = {r \in store : r.userId # calls[c].userId}
         ELSE /\ \E r \in m :
                   calls' = [calls EXCEPT ![c].pc = "matched", ![c].matched = r.id]
              /\ store' = store
  /\ UNCHANGED <<now, users, nextId, issued, validated>>
  /\ UNCHANGED dirVars

\* findMany and the scan: the first match in the order the rows came back, an
\* order the query does not fix.
Lookup(c) ==
  /\ calls[c].pc = "tx"
  /\ LET m == Matching(calls[c].tok, findActive(calls[c].userId, now))
     IN  IF m = {}
         THEN calls' = [calls EXCEPT ![c] = Failed(c, "lookup", ErrReuse, NoCause)]
         ELSE \E r \in m :
                calls' = [calls EXCEPT ![c].pc = "matched", ![c].matched = r.id]
  /\ UNCHANGED <<now, users, store, nextId, issued, validated>>
  /\ UNCHANGED dirVars

\* Faulty variant: every row whose hash verifies the token is revoked (updateMany).
UpdateRevokedEveryMatch(c) ==
  IF calls[c].matched \in Ids(store)
  THEN [calls[c] EXCEPT !.pc = "revoked",
          !.txRevoked = {r.id : r \in Matching(calls[c].tok, store)}]
  ELSE Failed(c, "update", ErrNotFound, NoCause)

\* prisma.userToken.update({where: {id}, data: {revoked: true}}): waits for the
\* row lock; throws when the row is gone.
UpdateRevoked(c) ==
  IF calls[c].matched \in Ids(store)
  THEN [calls[c] EXCEPT !.pc = "revoked", !.txRevoked = {calls[c].matched}]
  ELSE Failed(c, "update", ErrNotFound, NoCause)

\* Faulty variant: the update sent through the global client: committed at once.
UpdateAutocommit(c) ==
  {IF r.id = calls[c].matched THEN [r EXCEPT !.revoked = TRUE] ELSE r : r \in store}

\* The committed table after the update: unchanged, the write goes through the
\* transaction client `prisma` and stays private until the commit.
UpdateVisible(c) == store

Update(c) ==
  /\ calls[c].pc = "matched"
  /\ ~Locked(calls[c].matched, c)
  /\ calls' = [calls EXCEPT ![c] = UpdateRevoked(c)]
  /\ store' = UpdateVisible(c)
  /\ UNCHANGED <<now, users, nextId, issued, validated>>
  /\ UNCHANGED dirVars

\* Faulty variant: deleteMany without its userId filter: the stale rows of every user.
StaleEveryUser(c, t) ==
  {r.id : r \in {q \in store : \/ q.expiresAt < t
                               \/ q.revoked
                               \/ q.id \in calls[c].txRevoked}}

\* prisma.userToken.deleteMany({userId, OR: [{expiresAt: {lt: new Date()}}, {revoked: true}]})
\* as the transaction sees the table: the committed rows and its own update.
Stale(c, t) ==
  {r.id : r \in {q \in store : /\ q.userId = calls[c].userId
                               /\ \/ q.expiresAt < t
                                  \/ q.revoked
                                  \/ q.id \in calls[c].txRevoked}}

DeleteMany(c) ==
  /\ calls[c].pc = "revoked"
  /\ \A id \in Stale(c, now) : ~Locked(id, c)
  /\ calls' = [calls EXCEPT ![c].pc = "purged", ![c].txDeleted = Stale(c, now)]
  /\ UNCHANGED <<now, users, store, nextId, issued, validated>>
  /\ UNCHANGED dirVars

\* Where createRefreshToken's insert lands: db.userToken.create goes through the
\* global client, so the row is committed at once, whatever the caller's
\* transaction does later.
InsertRefresh(rec) == store \cup {rec}

\* Faulty variant: the pair is minted whatever the action.
mintsPairAlways(action) == TRUE

\* if (action === "REGENERATE"): only this action mints; REVOKE returns true.
mintsPair(action) == action = "REGENERATE"

\* The REGENERATE branch: Promise.all([createAccessToken, createRefreshToken]).
\* Either may throw; a throw of createAccessToken does not stop
\* createRefreshToken, whose insert then outlives the rolled-back transaction.
Mint(c, outcome) ==
  /\ calls[c].pc = "purged"
  /\ mintsPair(calls[c].op)
  /\ IF outcome = "refreshFails"
     THEN /\ calls' = [calls EXCEPT ![c] = Failed(c, "mint", ErrRefresh, NoCause)]
          /\ UNCHANGED <<store, nextId>>
     ELSE /\ nextId <= MaxRecords
          /\ LET rec == NewTokenRecord(nextId, calls[c].userId, now)
                 got == [calls[c] EXCEPT !.newId = rec.id, !.newTok = createToken(calls[c].userId, RefreshTTL, now),
                           !.newAccess = createAccessToken(calls[c].userId, now)]
             IN  /\ store' = InsertRefresh(rec)
                 /\ calls' = [calls EXCEPT ![c] =
                      IF outcome = "accessFails"
                      THEN [got EXCEPT !.pc = "failed", !.stage = "mint",
                                       !.error = ErrAccess, !.txRevoked = {},
                                       !.txDeleted = {}]
                      ELSE [got EXCEPT !.pc = "minted"]]
          /\ nextId' = nextId + 1
  /\ UNCHANGED <<now, users, issued, validated>>
  /\ UNCHANGED dirVars

\* Faulty variant: the commit also pushes back the expiry of the rows it keeps.
ApplyTxSliding(c) ==
  { IF r.id \in calls[c].txRevoked THEN [r EXCEPT !.revoked = TRUE]
    ELSE IF r.userId = calls[c].userId
         THEN [r EXCEPT !.expiresAt = now + RefreshTTL * TicksPerSec]
         ELSE r :
      r \in {q \in store : q.id \notin calls[c].txDeleted} }

\* The table once the transaction's update and deleteMany are committed.
ApplyTx(c) ==
  { IF r.id \in calls[c].txRevoked THEN [r EXCEPT !.revoked = TRUE] ELSE r :
      r \in {q \in store : q.id \notin calls[c].txDeleted} }

ReadyToCommit(c) ==
  \/ calls[c].pc = "minted"
  \/ calls[c].pc = "purged" /\ ~mintsPair(calls[c].op)

\* The callback returned: Prisma commits and processToken returns the pair (or
\* true); or the commit fails (the transaction timed out, the connection broke)
\* and everything written through the transaction client is rolled back.
Commit(c, ok) ==
  /\ ReadyToCommit(c)
  /\ IF ok
     THEN /\ store' = ApplyTx(c)
          /\ calls' = [calls EXCEPT ![c].pc = "done",
                         ![c].applied = calls[c].txRevoked \cup calls[c].txDeleted,
                         ![c].txRevoked = {}, ![c].txDeleted = {}]
          /\ issued' = IF mintsPair(calls[c].op)
                       THEN issued \cup
                              { [tok |-> calls[c].newAccess, uid |-> calls[c].userId, kind |-> "access"],
                                [tok |-> calls[c].newTok, uid |-> calls[c].userId, kind |-> "refresh"] }
                       ELSE issued
     ELSE /\ calls' = [calls EXCEPT ![c] = Failed(c, "commit", ErrTransaction, NoCause)]
          /\ UNCHANGED <<store, issued>>
  /\ UNCHANGED <<now, users, nextId, validated>>
  /\ UNCHANGED dirVars

\* regenToken(refreshToken) and logout(refreshToken)
regenToken(c, tok) == Start(c, "REGENERATE", tok)

logout(c, tok) == Start(c, "REVOKE", tok)

\* The steps of the processToken calls in flight.
Steps ==
  \/ \E c \in Calls, tok \in Presentable : regenToken(c, tok)
  \/ \E c \in Calls, tok \in Presentable : logout(c, tok)
  \/ \E c \in Calls : Lookup(c)
  \/ \E c \in Calls : Update(c)
  \/ \E c \in Calls : DeleteMany(c)
  \/ \E c \in Calls, outcome \in {"ok", "accessFails", "refreshFails"} : Mint(c, outcome)
  \/ \E c \in Calls, ok \in BOOLEAN : Commit(c, ok)

\* One principal, several devices, concurrent calls.
Next == Tick \/ LoginOne \/ Steps

Spec == Init /\ [][Next]_vars

\* Several principals, each presenting the refresh tokens it was handed.
RefreshIssued == {i.tok : i \in {j \in issued : j.kind = "refresh"}}

StepsTwo ==
  \/ \E c \in Calls, tok \in RefreshIssued : regenToken(c, tok)
  \/ \E c \in Calls, tok \in RefreshIssued : logout(c, tok)
  \/ \E c \in Calls : Lookup(c)
  \/ \E c \in Calls : Update(c)
  \/ \E c \in Calls : DeleteMany(c)
  \/ \E c \in Calls, outcome \in {"ok", "accessFails", "refreshFails"} : Mint(c, outcome)
  \/ \E c \in Calls, ok \in BOOLEAN : Commit(c, ok)

NextTwo == Tick \/ LoginAny \/ StepsTwo

SpecTwo == Init /\ [][NextTwo]_vars

\* The codec on its own: tokens are minted by login and validated as time passes.
Bearer ==
  {i.tok : i \in issued} \cup {Forge(i.tok) : i \in issued} \cup {Malformed}

NextCodec == Tick \/ LoginAny \/ \E tok \in Bearer : Validate(tok)

SpecCodec == Init /\ [][NextCodec]_vars

\* ------------------------------------------------------------- register
\* What register is called with.
RegData ==
  [name : {"New"}, username : {"admin", "newbie"},
   email : {"admin@me.com", "new@me.com"}, password : {"secret"}]

\* The id the users table gives the row a register call inserts.
NewUserId(r) == "n" \o ToString(r)

RegOpen(r) == regs[r].pc \in {"check", "role", "mkrole", "create", "created"}

RegFinished(r) == regs[r].pc \in {"done", "failed"}

\* register's throw: the transaction is rolled back with what it inserted.
RegFailed(r, error) ==
  [regs[r] EXCEPT !.pc = "failed", !.error = error, !.newRole = {}, !.created = {}]

\* Faulty variant: a users table without its unique indexes.
uniqueConflictNone(data) == {}

\* users_email_key and users_username_key: the committed rows an insert of
\* these handles collides with.
uniqueConflict(data) ==
  {u \in users : u.email = data.email \/ u.username = data.username}

\* Faulty variant: the existence check by email alone.
existingUserByEmail(data) == {u \in users : u.email = data.email}

\* prisma.user.findFirst({where: {OR: [{email}, {username}]}}) on committed rows
existingUser(data) ==
  {u \in users : u.email = data.email \/ u.username = data.username}

\* register, entering the transaction.
register(r, data) ==
  /\ regs[r].pc = "idle"
  /\ \A q \in Regs : q < r => regs[q].pc # "idle"
  /\ regs' = [regs EXCEPT ![r] =
       [regs[r] EXCEPT !.pc = "check", !.data = data,
                       !.taken = (uniqueConflict(data) # {}),
                       !.after = {q \in Regs : RegFinished(q)}]]
  /\ UNCHANGED <<now, users, store, nextId, calls, issued, validated, roles, logged, guard, req>>

\* if (existingUser) throw new Error("Email or Username already registered!")
RegFindFirst(r) ==
  /\ regs[r].pc = "check"
  /\ regs' = [regs EXCEPT ![r] =
       IF existingUser(regs[r].data) # {}
       THEN RegFailed(r, ErrRegistered)
       ELSE [regs[r] EXCEPT !.pc = "role"]]
  /\ UNCHANGED <<now, users, store, nextId, calls, issued, validated, roles, logged, guard, req>>

\* prisma.role.findUnique({where: {name: "USER"}})
RegFindRole(r) ==
  /\ regs[r].pc = "role"
  /\ regs' = [regs EXCEPT ![r] =
       IF \E ro \in roles : ro.name = "USER"
       THEN [regs[r] EXCEPT !.pc = "create", !.role = "USER"]
       ELSE [regs[r] EXCEPT !.pc = "mkrole"]]
  /\ UNCHANGED <<now, users, store, nextId, calls, issued, validated, roles, logged, guard, req>>

\* prisma.role.create({data: {name: "USER"}}): waits while another open
\* transaction holds the name, fails on roles_name_key when it is committed.
RegCreateRole(r) ==
  /\ regs[r].pc = "mkrole"
  /\ ~\E q \in Regs \ {r} : RegOpen(q) /\ regs[q].newRole # {}
  /\ regs' = [regs EXCEPT ![r] =
       IF \E ro \in roles : ro.name = "USER"
       THEN RegFailed(r, ErrUnique)
       ELSE [regs[r] EXCEPT !.pc = "create", !.role = "USER",
                            !.newRole = {[name |-> "USER", parent |-> NoParent]}]]
  /\ UNCHANGED <<now, users, store, nextId, calls, issued, validated, roles, logged, guard, req>>

\* Faulty variant: the plain password written to the column.
hashedPasswordPlain(data, salt) == [salt |-> "", pre |-> data.password]

\* const hashedPassword = await passwordHash(data.password)
hashedPassword(data, salt) == passwordHash(data.password, salt)

\* The row prisma.user.create inserts.
NewUser(r) ==
  [id |-> NewUserId(r), name |-> regs[r].data.name, email |-> regs[r].data.email,
   username |-> regs[r].data.username,
   password |-> hashedPassword(regs[r].data, NewUserId(r)), role |-> regs[r].role,
   updatedAt |-> now]

\* A row of another open transaction with the same email or username.
Pending(r) ==
  {u \in UNION {regs[q].created : q \in {p \in Regs \ {r} : RegOpen(p)}} :
     u.email = regs[r].data.email \/ u.username = regs[r].data.username}

\* prisma.user.create: waits on users_email_key / users_username_key while a
\* conflicting row is uncommitted, fails when it is committed.
RegCreateUser(r) ==
  /\ regs[r].pc = "create"
  /\ Pending(r) = {}
  /\ regs' = [regs EXCEPT ![r] =
       IF uniqueConflict(regs[r].data) # {}
       THEN RegFailed(r, ErrUnique)
       ELSE [regs[r] EXCEPT !.pc = "created", !.created = {NewUser(r)}]]
  /\ UNCHANGED <<now, users, store, nextId, calls, issued, validated, roles, logged, guard, req>>

\* return { name: user.name, email: user.email }
registerResult(user) == [name |-> user.name, email |-> user.email]

\* The callback returned: the commit makes the rows visible, or fails and rolls
\* them back.
RegCommit(r, ok) ==
  /\ regs[r].pc = "created"
  /\ IF ok
     THEN /\ users' = users \cup regs[r].created
          /\ roles' = roles \cup regs[r].newRole
          /\ regs' = [regs EXCEPT ![r] =
               [regs[r] EXCEPT !.pc = "done",
                  !.result = registerResult(CHOOSE u \in regs[r].created : TRUE)]]
     ELSE /\ regs' = [regs EXCEPT ![r] = RegFailed(r, ErrTransaction)]
          /\ UNCHANGED <<users, roles>>
  /\ UNCHANGED <<now, store, nextId, calls, issued, validated, logged, guard, req>>

\* A database that was migrated and seeded, or migrated only.
InitDirectory ==
  /\ now = 0
  /\ \/ users = SeedUsers /\ roles = SeedRoles
     \/ users = {} /\ roles = {}
  /\ store = {}
  /\ nextId = 1
  /\ calls = [c \in Calls |-> IdleCall]
  /\ issued = {}
  /\ validated = NoValidation
  /\ regs = [r \in Regs |-> IdleReg]
  /\ logged = NoLogin
  /\ guard = IdleGuard
  /\ req = NoRequest

\* The user directory: register calls in flight, logins with any input.
NextDirectory ==
  \/ Login
  \/ \E r \in Regs, data \in RegData : register(r, data)
  \/ \E r \in Regs : RegFindFirst(r)
  \/ \E r \in Regs : RegFindRole(r)
  \/ \E r \in Regs : RegCreateRole(r)
  \/ \E r \in Regs : RegCreateUser(r)
  \/ \E r \in Regs, ok \in BOOLEAN : RegCommit(r, ok)

SpecDirectory == InitDirectory /\ [][NextDirectory]_vars

\* ------------------------------------------------------------- role check
RoleNames == {"USER", "MODERATOR", "ADMIN", "SUPER ADMIN"}

\* Every content of table roles over these names: any subset of them present,
\* each row with no parent or with a parent that is a row of the table
\* (roles_parentId_fkey), a row's own name and cycles included.
RoleTables ==
  UNION { { {[name |-> n, parent |-> f[n]] : n \in S} : f \in [S -> S \cup {NoParent}] } :
          S \in SUBSET RoleNames }

\* What a route passes as options.roles.
AllowedLists == UNION {[1 .. n -> RoleNames] : n \in 1 .. MaxAllowed}

\* c.get("userRole"): a role name, or nothing.
UserRoles == RoleNames \cup {""}

\* Array.prototype.indexOf, 0-based, -1 when absent.
indexOf(seq, x) ==
  IF \E i \in 1 .. Len(seq) : seq[i] = x
  THEN (CHOOSE i \in 1 .. Len(seq) : seq[i] = x /\ \A j \in 1 .. i - 1 : seq[j] # x) - 1
  ELSE -1

\* Array.prototype.slice(from)
slice(seq, from) == SubSeq(seq, from + 1, Len(seq))

\* getFilteredRoleHierarchy, after getRoleHierarchy returned
getFilteredRoleHierarchy(hierarchy, minRole) ==
  slice(hierarchy, IF indexOf(hierarchy, minRole) >= 0 THEN indexOf(hierarchy, minRole) ELSE 0)

\* Faulty variant: the comparison turned round.
hasAccessReversed(hierarchy, userRole, minRole) ==
  LET roleHierarchy == getFilteredRoleHierarchy(hierarchy, minRole)
  IN  indexOf(roleHierarchy, userRole) <= indexOf(roleHierarchy, minRole)

\* const hasAccess = userRoleIndex >= minRoleIndex
hasAccess(hierarchy, userRole, minRole) ==
  LET roleHierarchy == getFilteredRoleHierarchy(hierarchy, minRole)
  IN  indexOf(roleHierarchy, userRole) >= indexOf(roleHierarchy, minRole)

\* Faulty variant: hierarchical unless strict is asked for.
strictDefaultFalse(option) == option = "true"

\* ({ roles, strict = true })
strict(option) == option # "false"

\* roles.includes(userRole)
includes(allowed, userRole) == \E i \in 1 .. Len(allowed) : allowed[i] = userRole

Granted == [pc |-> "granted", message |-> ""]

Denied(message) == [pc |-> "denied", message |-> message]

\* How a run of the middleware ends: next() or the 403 response.
Ends(g, outcome) == [g EXCEPT !.pc = outcome.pc, !.message = outcome.message]

\* roleMiddleware up to its first await: the missing role, the strict branch,
\* or the start of the walk up the hierarchy.
roleMiddleware(userRole, allowed, option) ==
  /\ guard.pc = "idle"
  /\ LET g == [IdleGuard EXCEPT !.userRole = userRole, !.allowed = allowed,
                                !.strict = option]
     IN  guard' =
           IF userRole = "" THEN Ends(g, Denied("Unauthorized: Role not found"))
           ELSE IF strict(option)
                THEN IF includes(allowed, userRole)
                     THEN Ends(g, Granted)
                     ELSE Ends(g, Denied("Unauthorized: Access denied"))
           ELSE [g EXCEPT !.pc = "walk", !.name = userRole]
  /\ UNCHANGED <<now, users, store, nextId, calls, issued, validated, roles, regs, logged, req>>

\* The decision once getRoleHierarchy has returned.
Decide(g, hierarchy) ==
  IF hasAccess(hierarchy, g.userRole, g.allowed[1])
  THEN Ends([g EXCEPT !.hierarchy = hierarchy], Granted)
  ELSE Ends([g EXCEPT !.hierarchy = hierarchy], Denied("Unauthorized: Access denied"))

\* Faulty variant: the name put in front of the names collected so far.
pushFront(hierarchy, name) == <<name>> \o hierarchy

\* hierarchy.push(roleHierarchy.name), then the parent's chain behind it.
push(hierarchy, name) == Append(hierarchy, name)

\* One call of getRoleHierarchy: db.role.findUnique({where: {name}, include:
\* {parent}}), the name pushed, and the recursion into the parent if there is
\* one. The walk has no visited set; the model stops following it once it is
\* longer than any chain without a repetition can be.
getRoleHierarchy ==
  /\ guard.pc = "walk"
  /\ Len(guard.hierarchy) < MaxChain
  /\ LET found == {ro \in roles : ro.name = guard.name}
     IN  IF found = {}
         THEN guard' = Decide(guard, guard.hierarchy)
         ELSE \E ro \in found :
                IF ro.parent = NoParent
                THEN guard' = Decide(guard, push(guard.hierarchy, ro.name))
                ELSE guard' = [guard EXCEPT !.hierarchy = push(@, ro.name),
                                            !.name = ro.parent]
  /\ UNCHANGED <<now, users, store, nextId, calls, issued, validated, roles, regs, logged, req>>

\* Any table of roles; no principals, no tokens.
InitRoles ==
  /\ now = 0
  /\ users = {}
  /\ roles \in RoleTables
  /\ store = {}
  /\ nextId = 1
  /\ calls = [c \in Calls |-> IdleCall]
  /\ issued = {}
  /\ validated = NoValidation
  /\ regs = [r \in Regs |-> IdleReg]
  /\ logged = NoLogin
  /\ guard = IdleGuard
  /\ req = NoRequest

\* One request reaching roleMiddleware (it keeps nothing between requests).
NextRoles ==
  \/ \E userRole \in UserRoles, allowed \in AllowedLists,
        option \in {"true", "false", "omitted"} : roleMiddleware(userRole, allowed, option)
  \/ getRoleHierarchy

SpecRoles == InitRoles /\ [][NextRoles]_vars

\* ------------------------------------------------------------- authMiddleware
\* The Authorization header of a request: none, or "Bearer <token>".
NoHeader == [wf |-> FALSE, sub |-> "", iat |-> -1, exp |-> 0, key |-> ""]

\* respondWithError(c, message, status)
respondWithError(tok, message, status) ==
  [NoRequest EXCEPT !.pc = "responded", !.tok = tok, !.status = status,
                    !.message = message]

\* Faulty variant: the role the principal was seeded with.
userRoleAtSeed(userId) ==
  IF \E u \in SeedUsers : u.id = userId
  THEN (CHOOSE u \in SeedUsers : u.id = userId).role
  ELSE "USER"

\* db.user.findUnique({where: {id}, select: {role: {select: {name}}}}): the
\* role of the row as it is now.
userRole(userId) == (CHOOSE u \in users : u.id = userId).role

\* authMiddleware: the header, validateToken, the subject, the user row, and
\* c.set("userId"), c.set("userRole") before next().
authMiddleware(tok) ==
  /\ LET v == validateToken(tok, now)
     IN  req' =
           IF tok = NoHeader
           THEN respondWithError(tok, "Authorization token is required!", 401)
           ELSE IF ~v.ok THEN respondWithError(tok, "Authentication failed", 401)
           ELSE IF v.subject = ""
                THEN respondWithError(tok, "Invalid user ID in token!", 401)
           ELSE IF ~\E u \in users : u.id = v.subject
                THEN respondWithError(tok, "User not found!", 404)
           ELSE [NoRequest EXCEPT !.pc = "next", !.tok = tok, !.userId = v.subject,
                                  !.userRole = userRole(v.subject)]
  /\ UNCHANGED <<now, users, store, nextId, calls, issued, validated, roles, regs, logged, guard>>

\* The directory changing a principal's role (prisma.user.upsert's update of
\* roleId, as the seed script does when run again with other samples).
ChangeRole(userId, role) ==
  /\ \E ro \in roles : ro.name = role
  /\ users' = {IF u.id = userId THEN [u EXCEPT !.role = role, !.updatedAt = now] ELSE u :
                 u \in users}
  /\ users' # users
  /\ UNCHANGED <<now, store, nextId, calls, issued, validated, roles, regs, logged, guard, req>>

\* Requests with the access tokens handed out, while roles change.
AccessTokens == {i.tok : i \in {j \in issued : j.kind = "access"}}

\* The principals holding a token.
Holders == {i.uid : i \in issued}

NextAuth ==
  \/ Tick
  \/ LoginOne
  \/ \E tok \in AccessTokens \cup {NoHeader, Malformed} : authMiddleware(tok)
  \/ \E userId \in Holders, role \in RoleNames : ChangeRole(userId, role)

SpecAuth == Init /\ [][NextAuth]_vars

\* Bearer tokens validated while sessions are opened and logged out.
NextStateless ==
  \/ Tick
  \/ LoginOne
  \/ \E tok \in AccessTokens : Validate(tok)
  \/ \E c \in Calls, tok \in RefreshIssued : logout(c, tok)
  \/ \E c \in Calls : Lookup(c)
  \/ \E c \in Calls : Update(c)
  \/ \E c \in Calls : DeleteMany(c)
  \/ \E c \in Calls, ok \in BOOLEAN : Commit(c, ok)

SpecStateless == Init /\ [][NextStateless]_vars

\* ------------------------------------------------------------- GET /auth/me
\* An access token the service signed for a principal that is no longer in
\* the directory.
OrphanToken == createAccessToken("u0", 0)

\* The Authorization header of a request to /auth/me.
MeTokens == AccessTokens \cup {NoHeader, Malformed, OrphanToken}

\* middleware: [authMiddleware, roleMiddleware({ roles: ["USER"] })]
meRoles == <<"USER">>

\* The first middleware of the route.
meAuth(tok) == req.pc = "idle" /\ authMiddleware(tok)

\* The second middleware, entered when the first called next(); strict is
\* left to its default.
meRole == req.pc = "next" /\ roleMiddleware(req.userRole, meRoles, "omitted")

\* Faulty variant: next() called whatever the role check decided.
calledNextAlways(g) == g.pc \in {"granted", "denied"}

\* roleMiddleware's await next(), reached only when no 403 was returned.
calledNext(g) == g.pc = "granted"

\* authService.profile(userId): the row, or Error("User not found").
profile(userId) ==
  IF \E u \in users : u.id = userId
  THEN LET user == CHOOSE u \in users : u.id = userId
       IN  [ok |-> TRUE, error |-> NoError,
            user |-> [name |-> user.name, username |-> user.username,
                      email |-> user.email, role |-> user.role]]
  ELSE [ok |-> FALSE, error |-> "User not found",
        user |-> [name |-> "", username |-> "", email |-> "", role |-> ""]]

\* The handler of the route: c.json({ user }, 200), or 401 with the message
\* of what profile threw.
meHandler ==
  /\ req.pc = "next"
  /\ calledNext(guard)
  /\ LET res == profile(req.userId)
     IN  req' = [req EXCEPT !.pc = "handled",
                            !.status = IF res.ok THEN 200 ELSE 401,
                            !.message = res.error]
  /\ UNCHANGED <<now, users, store, nextId, calls, issued, validated, roles, regs, logged, guard>>

\* One request to /auth/me, with any header, after any logins.
NextMe ==
  \/ Tick
  \/ LoginAny
  \/ \E tok \in MeTokens : meAuth(tok)
  \/ meRole
  \/ meHandler

SpecMe == Init /\ [][NextMe]_vars

\* ------------------------------------------------------------- claims
Regen(c) == calls[c].op = "REGENERATE"

Revoke(c) == calls[c].op = "REVOKE"

Done(c) == calls[c].pc = "done"

Fail(c) == calls[c].pc = "failed"

\* d had returned before c started.
Before(d, c) == d \in calls[c].after

\* c and d overlap: each started before the other returned.
Concurrent(c, d) ==
  /\ c # d
  /\ calls[c].pc # "idle" /\ calls[d].pc # "idle"
  /\ ~Before(c, d) /\ ~Before(d, c)

\* The committed row id exists and is not revoked.
ActiveRow(id) == \E r \in store : r.id = id /\ ~r.revoked

\* The call got past validateToken: its token was well formed, signed and unexpired.
Decoded(c) == calls[c].pc # "idle" /\ calls[c].stage # "decode"

\* C1: once a Rotate(t) has succeeded, every Rotate(t) with the same raw token
\* that starts after it returned (and whose token still decodes) fails with the
\* reuse error.
C1_SingleUse ==
  \A c, d \in Calls :
    (/\ Regen(d) /\ Done(d) /\ Before(d, c)
     /\ Regen(c) /\ calls[c].tok = calls[d].tok /\ Decoded(c) /\ Finished(c))
    => Fail(c) /\ calls[c].error = ErrReuse

\* C2: of two concurrent Rotate calls presenting the same raw token (both past
\* decoding), at most one succeeds and the other fails with the reuse error.
C2_ConcurrentRotate ==
  \A c, d \in Calls :
    (/\ Regen(c) /\ Regen(d) /\ Concurrent(c, d)
     /\ calls[c].tok = calls[d].tok /\ Done(d) /\ Decoded(c) /\ Finished(c))
    => Fail(c) /\ calls[c].error = ErrReuse

\* C3: a Rotate that failed after the match leaves no record it created, and the
\* presented token's record is never ACTIVE together with an ACTIVE replacement
\* created by the same Rotate.
C3_AllOrNothing ==
  \A c \in Calls :
    Regen(c) /\ calls[c].matched # 0 =>
      /\ Fail(c) => calls[c].newId \notin Ids(store)
      /\ ~(ActiveRow(calls[c].matched) /\ ActiveRow(calls[c].newId))

\* The revocation of the record c matched is visible in the committed table, or
\* the record was deleted by c's commit.
RevocationVisible(c) ==
  \/ \E r \in store : r.id = calls[c].matched /\ r.revoked
  \/ calls[c].matched \in calls[c].applied

\* C4: in every committed state, and at the end of every failed Rotate, the record
\* a Rotate matched is revoked or deleted through that Rotate only if the Rotate's
\* replacement refresh record has been inserted.
C4_NoRevokeWithoutReplacement ==
  \A c \in Calls :
    Regen(c) /\ calls[c].matched # 0 /\ calls[c].newId = 0 => ~RevocationVisible(c)

\* A Rotate failed after its revoke and purge, before any replacement was inserted.
C4_Witness ==
  \E c \in Calls :
    /\ Regen(c) /\ Fail(c) /\ calls[c].stage = "mint" /\ calls[c].newId = 0
    /\ ActiveRow(calls[c].matched)

\* C5: after a successful Revoke(t), every later Rotate(t) (whose token still
\* decodes) fails with the reuse error and inserts no replacement.
C5_RevokeThenRotate ==
  \A c, d \in Calls :
    (/\ Revoke(d) /\ Done(d) /\ Before(d, c)
     /\ Regen(c) /\ calls[c].tok = calls[d].tok /\ Decoded(c) /\ Finished(c))
    => Fail(c) /\ calls[c].error = ErrReuse /\ calls[c].newId = 0

\* A refresh token handed to a caller, unexpired, that no successful Rotate or
\* Revoke was presented with.
Eligible(tok) ==
  /\ \E i \in issued : i.kind = "refresh" /\ i.tok = tok
  /\ now < tok.exp * TicksPerSec
  /\ ~\E d \in Calls : Done(d) /\ calls[d].tok = tok

\* C6: Rotate never rejects (at decoding, at the lookup or at the update) a
\* refresh token that was handed out, has not expired and was never presented to
\* a successful Rotate or Revoke, whatever else happened to other tokens of the
\* same or of other principals.
C6_UnusedTokenAccepted ==
  \A c \in Calls :
    Regen(c) /\ Fail(c) /\ calls[c].stage \in {"decode", "lookup", "update"}
      => ~Eligible(calls[c].tok)

\* C7: the refresh token a successful Rotate returns differs from the one presented.
C7_FreshRefresh ==
  \A c \in Calls : Regen(c) /\ Done(c) => calls[c].newTok # calls[c].tok

\* The access tokens login handed out, with the principal they were minted for.
AccessIssued == {i \in issued : i.kind = "access"}

C9_ExpiredKind ==
  \A i \in AccessIssued :
    (/\ validated.tok = i.tok /\ validated.at >= 0
     /\ validated.at >= i.tok.exp * TicksPerSec)
    => /\ ~validated.res.ok
       /\ validated.res.error = ErrValidate
       /\ validated.res.cause = CauseExpired

\* An access token was validated at the very tick of its expiry.
C9_Witness ==
  \E i \in AccessIssued :
    /\ validated.tok = i.tok
    /\ validated.at = i.tok.exp * TicksPerSec
    /\ validated.res.cause = CauseExpired

\* C10: the error of a call whose token decoded but matched no ACTIVE record is
\* the reuse error, and it differs from the error of every call whose token
\* failed decoding.
C10_ReuseDistinct ==
  \A c, d \in Calls :
    Fail(c) /\ calls[c].stage = "lookup" /\ Fail(d) /\ calls[d].stage = "decode"
      => calls[c].error = ErrReuse /\ calls[c].error # calls[d].error

\* One call failed at the lookup, another at decoding.
C10_Witness ==
  \E c, d \in Calls :
    /\ Fail(c) /\ calls[c].stage = "lookup"
    /\ Fail(d) /\ calls[d].stage = "decode"

\* The result every failed login with well-formed input is expected to carry.
InvalidCredentials == Rejected("Invalid login credentials")

\* C11: a login that fails on well-formed input gets the same result, message
\* included, whether the handle is nobody's or the password is wrong.
C11_SameFailure ==
  (logged.at >= 0 /\ loginSchema(logged.handle) /\ ~logged.res.ok)
    => logged.res = InvalidCredentials

\* A login with a registered handle and the wrong password was rejected.
C11_Witness ==
  /\ logged.at >= 0 /\ logged.known # {} /\ logged.password = "wrong"
  /\ ~logged.res.ok

\* The register calls that did not overlap r.
RegAlone(r) ==
  \A q \in Regs \ {r} :
    regs[q].pc = "idle" \/ q \in regs[r].after \/ r \in regs[q].after

\* C12: a register whose email or username belonged to a registered principal
\* when it was called fails with the already-registered error and creates no
\* principal; a register is rejected as already registered only when a principal
\* holds one of its handles, and the first register of a handle, running alone,
\* fails only if its commit does.
C12_DuplicateRejected ==
  \A r \in Regs :
    /\ regs[r].taken /\ RegFinished(r)
         => /\ regs[r].pc = "failed" /\ regs[r].error = ErrRegistered
            /\ \A u \in users : u.id # NewUserId(r)
    /\ regs[r].error = ErrRegistered => uniqueConflict(regs[r].data) # {}
    /\ ~regs[r].taken /\ RegAlone(r) /\ regs[r].pc = "failed"
         => regs[r].error = ErrTransaction

\* A register succeeded and a later one with its email was rejected.
C12_Witness ==
  \E r, q \in Regs :
    /\ regs[q].pc = "done" /\ q \in regs[r].after
    /\ regs[r].data.email = regs[q].data.email
    /\ regs[r].pc = "failed" /\ regs[r].error = ErrRegistered

Plain(value) == [salt |-> "", pre |-> value]

\* C14: the row a successful register inserted holds a hash the password
\* verifies against, never the password itself, and the call's result has the
\* fields name and email only.
C14_HashStored ==
  \A r \in Regs :
    regs[r].pc = "done" =>
      /\ \E u \in users :
           /\ u.id = NewUserId(r)
           /\ u.password # Plain(regs[r].data.password)
           /\ passwordVerify(regs[r].data.password, u.password)
      /\ DOMAIN regs[r].result = {"name", "email"}
      /\ regs[r].result.name = regs[r].data.name
      /\ regs[r].result.email = regs[r].data.email

\* A register succeeded on a database without roles.
C14_Witness ==
  \E r \in Regs : regs[r].pc = "done" /\ regs[r].newRole # {}

\* A run of the middleware in hierarchical mode (strict: false) has ended.
Hierarchical ==
  guard.pc \in {"granted", "denied"} /\ guard.strict = "false" /\ guard.userRole # ""

\* isAtLeast(candidate, floor) was evaluated: the hierarchical check of a user
\* with role candidate against the minimum role floor.
Asked(candidate, floor) ==
  Hierarchical /\ guard.userRole = candidate /\ guard.allowed[1] = floor

\* The parent of the role called name, NoParent if it has none or is no row.
ParentOf(name) ==
  IF \E ro \in roles : ro.name = name
  THEN (CHOOSE ro \in roles : ro.name = name).parent
  ELSE NoParent

\* The names reached from name in 1 .. k parent steps.
RECURSIVE Above(_, _)
Above(name, k) ==
  IF k = 0 \/ ParentOf(name) = NoParent THEN {}
  ELSE {ParentOf(name)} \cup Above(ParentOf(name), k - 1)

\* The strict ancestors of a role.
Ancestors(name) == Above(name, Cardinality(roles))

\* No role is its own ancestor.
Acyclic == \A ro \in roles : ro.name \notin Ancestors(ro.name)

\* C15: on the seeded chain, ADMIN checked against the floor USER is granted
\* and USER checked against the floor ADMIN is denied.
C15_SeededChain ==
  roles = SeedRoles =>
    /\ Asked("ADMIN", "USER") => guard.pc = "granted"
    /\ Asked("USER", "ADMIN") => guard.pc = "denied"

\* ADMIN was granted against the floor USER on the seeded chain.
C15_Witness ==
  roles = SeedRoles /\ Asked("ADMIN", "USER") /\ guard.pc = "granted"

\* C16: when the floor role is not in the ancestry chain of the candidate role
\* (the candidate itself and its ancestors), the hierarchical check denies.
C16_AbsentFloorDenied ==
  \A candidate, floor \in RoleNames :
    (/\ Acyclic /\ Asked(candidate, floor)
     /\ floor \notin ({candidate} \cup Ancestors(candidate)))
    => guard.pc = "denied"

\* C17: on every role forest, the hierarchical check grants exactly when the
\* user's role is the minimum role or one of its ancestors.
C17_GrantedIffAtLeast ==
  (Acyclic /\ Hierarchical) =>
    (guard.pc = "granted"
       <=> guard.userRole \in ({guard.allowed[1]} \cup Ancestors(guard.allowed[1])))

\* C18: the walk up the hierarchy never visits a role it has already visited
\* (it would have stopped with the cycle error instead).
C18_CycleDetected ==
  \A i, j \in 1 .. Len(guard.hierarchy) :
    i # j => guard.hierarchy[i] # guard.hierarchy[j]

\* C19: the hierarchical check of a role that is no row of table roles does not
\* end with an empty chain and is not granted.
C19_UnknownRoleRejected ==
  (Hierarchical /\ ~\E ro \in roles : ro.name = guard.userRole)
    => guard.hierarchy # <<>> /\ guard.pc # "granted"

\* C20: with strict true or omitted, access is granted exactly when the user's
\* role is one of the listed roles, and the hierarchy is never walked.
C20_StrictMembership ==
  (guard.pc # "idle" /\ guard.strict \in {"true", "omitted"} /\ guard.userRole # "")
    => /\ guard.pc \in {"granted", "denied"}
       /\ guard.hierarchy = <<>>
       /\ guard.pc = "granted"
            <=> \E i \in 1 .. Len(guard.allowed) : guard.allowed[i] = guard.userRole

\* On the seeded chain, with the option omitted, ADMIN was denied where only
\* USER is listed.
C20_Witness ==
  /\ roles = SeedRoles /\ guard.strict = "omitted" /\ guard.userRole = "ADMIN"
  /\ guard.allowed = <<"USER">> /\ guard.pc = "denied"

\* C21: every request that authMiddleware lets through carries the role the
\* principal's row holds at that moment, whatever the role was when the token
\* was issued.
C21_RoleAtRequest ==
  [][ (req' # req /\ req'.pc = "next")
        => \E u \in users : u.id = req'.userId /\ u.role = req'.userRole ]_vars

\* A request with a token issued before the principal's role was changed went
\* through with the new role.
C21_Witness ==
  \E u \in users :
    /\ req.pc = "next" /\ req.userId = u.id /\ req.userRole = u.role
    /\ u.role # userRoleAtSeed(u.id)
    /\ u.updatedAt > 0 /\ req.tok.iat < EpochSeconds(u.updatedAt)

\* C22: the outcome of Validate on an access token is fixed by the token, the
\* signing secret and the time of the call; the rows of the token store,
\* revoked or deleted by logout, play no part in it.
C22_ValidateStateless ==
  validated.at >= 0 =>
    /\ validated.res.ok = /\ validated.tok.wf
                          /\ validated.tok.key = Secret
                          /\ validated.at < validated.tok.exp * TicksPerSec
    /\ validated.res.ok => validated.res.subject = validated.tok.sub

\* An access token validated successfully after its principal logged out and
\* holds no active refresh-token row any more.
C22_Witness ==
  /\ validated.at = now /\ validated.res.ok
  /\ \E c \in Calls : Revoke(c) /\ Done(c) /\ calls[c].userId = validated.tok.sub
  /\ ~\E r \in store : r.userId = validated.tok.sub /\ ~r.revoked

\* The rows of the store that are neither revoked nor expired.
ActiveRecords == {r \in store : ~r.revoked /\ now < r.expiresAt}

\* C23: each raw refresh token matches at most one ACTIVE record, mintings of
\* one principal within the same clock second included.
C23_OneActivePerToken ==
  \A r1, r2 \in ActiveRecords :
    \A tok \in RefreshIssued : {r1, r2} \subseteq Matching(tok, store) => r1.id = r2.id

\* C24: the commit of a successful Rotate or Revoke takes exactly the matched
\* record out of the ACTIVE records, a record of the subject whose hash verifies
\* the presented token; every other ACTIVE, unexpired record is left as it was,
\* also when several records match.
C24_OnlyMatchedRevoked ==
  [][ \A c \in Calls :
        (calls[c].pc # "done" /\ calls'[c].pc = "done") =>
          /\ \E r \in store : /\ r.id = calls[c].matched /\ ~r.revoked
                              /\ r.userId = calls[c].userId
                              /\ r \in Matching(calls[c].tok, store)
          /\ ~\E r \in store' : r.id = calls[c].matched /\ ~r.revoked
          /\ \A r \in store :
               (r.id # calls[c].matched /\ ~r.revoked /\ now < r.expiresAt)
                 => r \in store' ]_vars

\* A call succeeded on a token that two records matched, and the record that
\* was not picked, older than the picked one, is still ACTIVE.
C24_Witness ==
  \E c \in Calls : \E r \in store :
    /\ Done(c) /\ ~r.revoked /\ now < r.expiresAt
    /\ r \in Matching(calls[c].tok, store)
    /\ r.id < calls[c].matched

\* The ACTIVE, unexpired records of a principal among the given rows at time t.
ActiveOf(rows, userId, t) ==
  {r \in rows : r.userId = userId /\ ~r.revoked /\ t < r.expiresAt}

\* The commit step of a successful Revoke.
RevokeCommits(c) == Revoke(c) /\ calls[c].pc # "done" /\ calls'[c].pc = "done"

\* A successful Revoke inserted no record and returns no pair.
RevokeMintsNothing(c) ==
  /\ calls'[c].newId = 0
  /\ calls'[c].newTok = Malformed /\ calls'[c].newAccess = Malformed
  /\ issued' = issued /\ nextId' = nextId
  /\ Ids(store') \subseteq Ids(store)

\* C25 as stated: a successful Revoke inserts no record, returns no pair, and
\* the principal's number of ACTIVE unexpired records decreases by exactly one.
C25_ExactlyOneFewer ==
  [][ \A c \in Calls :
        RevokeCommits(c) =>
          /\ RevokeMintsNothing(c)
          /\ Cardinality(ActiveOf(store', calls[c].userId, now))
               = Cardinality(ActiveOf(store, calls[c].userId, now)) - 1 ]_vars

\* C25, amended: a successful Revoke inserts no record and returns no pair;
\* the principal's number of ACTIVE unexpired records decreases by exactly one
\* when the matched record is still unexpired at the commit, and is unchanged
\* when the matched record has reached its expiry by then.
C25_OneFewerUnlessExpired ==
  [][ \A c \in Calls :
        RevokeCommits(c) =>
          /\ RevokeMintsNothing(c)
          /\ Cardinality(ActiveOf(store', calls[c].userId, now))
               = Cardinality(ActiveOf(store, calls[c].userId, now))
                   - (IF \E r \in ActiveOf(store, calls[c].userId, now) :
                           r.id = calls[c].matched
                      THEN 1 ELSE 0) ]_vars

\* A Revoke succeeded for a principal with another ACTIVE unexpired record,
\* which it left in place.
C25_Witness ==
  \E c \in Calls :
    /\ Revoke(c) /\ Done(c) /\ calls[c].matched \in calls[c].applied
    /\ calls[c].newId = 0
    /\ \E r \in ActiveOf(store, calls[c].userId, now) : r.id < calls[c].matched

\* The records of the call's principal that are stale when its purge runs:
\* revoked, by a committed update or by the call's own, or expired.
StaleAtPurge(c) ==
  {r \in store : /\ r.userId = calls[c].userId
                 /\ \/ r.revoked
                    \/ r.id \in calls[c].txRevoked
                    \/ now >= r.expiresAt}

\* C26: the purge of a Rotate or Revoke for principal p takes every record of
\* p that is revoked or expired, the one just revoked included, and once the
\* call has succeeded none of them, and no revoked record of p, is in the store.
C26_NoStaleLeft ==
  [][ \A c \in Calls :
        /\ (calls[c].pc = "revoked" /\ calls'[c].pc = "purged")
             => Ids(StaleAtPurge(c)) \subseteq calls'[c].txDeleted
        /\ (calls[c].pc # "done" /\ calls'[c].pc = "done")
             => /\ Ids(store') \cap calls[c].txDeleted = {}
                /\ \A r \in store' : r.userId = calls[c].userId => ~r.revoked ]_vars

\* C27: a record whose expiresAt equals the current time is expired: the
\* active-record lookup does not return it, so the match is a record with
\* expiresAt in the future, and the purge deletes it.
C27_ExpiredAtExpiry ==
  [][ \A c \in Calls :
        /\ (calls[c].pc = "tx" /\ calls'[c].pc = "matched")
             => \A r \in store : r.id = calls'[c].matched => now < r.expiresAt
        /\ (calls[c].pc = "revoked" /\ calls'[c].pc = "purged")
             => \A r \in store :
                  (r.userId = calls[c].userId /\ r.expiresAt = now)
                    => r.id \in calls'[c].txDeleted ]_vars

\* C28: a record changes only by its revoked flag going from false to true
\* and by deletion: across every step, a record still in the store has the
\* principal, hash, issuedAt and expiresAt it was created with and is revoked
\* if it was before; a new record takes a fresh id; what a call revoked stays
\* revoked while the call runs and is revoked or deleted once it has committed.
C28_RevokedMonotonic ==
  [][ /\ \A r \in store : \A q \in store' :
           q.id = r.id =>
             /\ q.userId = r.userId /\ q.token = r.token
             /\ q.issuedAt = r.issuedAt /\ q.expiresAt = r.expiresAt
             /\ r.revoked => q.revoked
      /\ \A q \in store' : q.id \notin Ids(store) => q.id = nextId /\ ~q.revoked
      /\ \A c \in Calls :
           /\ (InTransaction(c) /\ calls'[c].pc \in OpenPcs)
                => calls[c].txRevoked \subseteq calls'[c].txRevoked
           /\ (calls[c].pc # "done" /\ calls'[c].pc = "done")
                => \A q \in store' : q.id \in calls[c].txRevoked => q.revoked ]_vars

\* A Rotate committed its revocation and its replacement while an older record
\* of the same principal stayed in the store.
C28_Witness ==
  \E c \in Calls : \E r, q \in store :
    /\ Regen(c) /\ Done(c) /\ calls[c].matched \in calls[c].applied
    /\ r.userId = calls[c].userId /\ r.id < calls[c].matched
    /\ q.id = calls[c].newId

\* C29: no two principals of the directory share an email or a username, and
\* of the register calls for one handle at most one creates a principal, also
\* when their existence checks and inserts interleave.
C29_UniqueHandles ==
  /\ \A u, v \in users :
       (u.email = v.email \/ u.username = v.username) => u = v
  /\ \A r, q \in Regs :
       (/\ r # q /\ regs[r].pc = "done" /\ regs[q].pc = "done")
       => /\ regs[r].data.email # regs[q].data.email
          /\ regs[r].data.username # regs[q].data.username

\* Two register calls for the same email ran concurrently, both passed the
\* existence check, one created the principal and the other was stopped by the
\* unique index.
C29_Witness ==
  \E r, q \in Regs :
    /\ r # q /\ r \notin regs[q].after /\ q \notin regs[r].after
    /\ regs[r].data.email = regs[q].data.email
    /\ ~regs[r].taken /\ ~regs[q].taken
    /\ regs[r].pc = "done" /\ \E u \in users : u.id = NewUserId(r)
    /\ regs[q].pc = "failed" /\ regs[q].error = ErrUnique

\* C30: on an acyclic hierarchy, the chain getRoleHierarchy returns for an
\* existing role r starts with r, each next element is the parent of the one
\* before, the last element has no parent, no role occurs twice and every
\* element is r or an ancestor of r.
C30_AncestryChain ==
  (/\ Hierarchical /\ Acyclic
   /\ \E ro \in roles : ro.name = guard.userRole)
  => LET h == guard.hierarchy
     IN  /\ Len(h) >= 1 /\ h[1] = guard.userRole
         /\ \A i \in 1 .. Len(h) - 1 : h[i + 1] = ParentOf(h[i])
         /\ ParentOf(h[Len(h)]) = NoParent
         /\ \A i, j \in 1 .. Len(h) : h[i] = h[j] => i = j
         /\ \A i \in 1 .. Len(h) : h[i] \in {guard.userRole} \cup Ancestors(guard.userRole)

\* The chain of a role with a parent and a grandparent was computed on an
\* acyclic hierarchy.
C30_Witness ==
  /\ Hierarchical /\ Acyclic
  /\ \E ro \in roles : ro.name = guard.userRole
  /\ Len(guard.hierarchy) >= 3

\* C31: decoding reports three pairwise distinct kinds and Validate hands the
\* kind on as it is: the malformed kind for a token of the wrong structure, the
\* signature kind for a token whose signature does not verify, the expired kind
\* for a correctly signed token past its expiry.
C31_KindByDefect ==
  /\ CauseMalformed # CauseSignature /\ CauseSignature # CauseExpired
  /\ CauseMalformed # CauseExpired
  /\ validated.at >= 0 =>
       /\ validated.res.cause = validateJWT(validated.tok, validated.at).cause
       /\ ~validated.tok.wf => validated.res.cause = CauseMalformed
       /\ (validated.tok.wf /\ validated.tok.key # Secret)
            => validated.res.cause = CauseSignature
       /\ (/\ validated.tok.wf /\ validated.tok.key = Secret
           /\ validated.at >= validated.tok.exp * TicksPerSec)
            => validated.res.cause = CauseExpired

\* C32: the handler of /auth/me runs only in a request whose bearer token
\* authMiddleware validated and whose subject it found in the directory, and
\* then only once roleMiddleware has granted access, which itself runs only
\* after authMiddleware went on; a request without a valid token ends with
\* 401, one of an unknown user with 404, one with a denied role with 403, and
\* in none of them the handler runs.
C32_HandlerAfterBothChecks ==
  [][ /\ (req.pc = "idle" /\ req'.pc = "next")
           => /\ validateToken(req'.tok, now).ok
              /\ req'.userId = req'.tok.sub
              /\ \E u \in users : u.id = req'.userId /\ u.role = req'.userRole
      /\ (req.pc = "idle" /\ req'.pc = "responded")
           => /\ req'.status = IF /\ validateToken(req'.tok, now).ok
                                  /\ req'.tok.sub # ""
                               THEN 404 ELSE 401
              /\ req'.status = 404 => ~\E u \in users : u.id = req'.tok.sub
      /\ guard' # guard => req.pc = "next" /\ guard.pc = "idle"
      /\ guard'.pc = "granted" => includes(meRoles, req'.userRole)
      /\ guard'.pc = "denied" => req'.pc = "next" /\ ~includes(meRoles, req'.userRole)
      /\ req'.pc = "responded" => guard'.pc = "idle"
      /\ req'.pc = "handled" => guard'.pc = "granted"
      /\ (req.pc # "handled" /\ req'.pc = "handled")
           => req.pc = "next" /\ guard.pc = "granted" ]_vars

\* A request went through both middlewares and its handler answered 200.
C32_Witness ==
  /\ req.pc = "handled" /\ req.status = 200
  /\ guard.pc = "granted" /\ guard.userRole = req.userRole

\* The step in which a call fails at decoding or for want of a matching
\* ACTIVE record.
FailsEarly(c) ==
  /\ calls[c].pc # "failed" /\ calls'[c].pc = "failed"
  /\ calls'[c].stage \in {"decode", "lookup"}

\* C33: a Rotate or Revoke that fails at decoding or because no ACTIVE record
\* matches has written nothing: the step in which it fails leaves the store
\* as it is, and the call has revoked, deleted and inserted no record, in its
\* transaction or outside.
C33_EarlyFailureWritesNothing ==
  [][ \A c \in Calls :
        FailsEarly(c) =>
          /\ store' = store /\ nextId' = nextId /\ issued' = issued
          /\ calls[c].txRevoked = {} /\ calls[c].txDeleted = {}
          /\ calls'[c].txRevoked = {} /\ calls'[c].txDeleted = {}
          /\ calls'[c].applied = {} /\ calls'[c].matched = 0
          /\ calls'[c].newId = 0 ]_vars

\* A call failed for want of a match while the store held an ACTIVE record of
\* its subject, and another failed at decoding.
C33_Witness ==
  \E c, d \in Calls :
    /\ Fail(c) /\ calls[c].stage = "lookup"
    /\ \E r \in store : r.userId = calls[c].userId /\ ~r.revoked
    /\ Fail(d) /\ calls[d].stage = "decode"

\* The records of the principals other than userId among the given rows.
OthersRecords(rows, userId) == {r \in rows : r.userId # userId}

\* C34: no step of a Rotate or Revoke for principal p changes a refresh-token
\* record of another principal, revoked and expired records included.
C34_OtherPrincipalsUntouched ==
  [][ \A c \in Calls :
        calls'[c] # calls[c]
          => OthersRecords(store', calls'[c].userId)
               = OthersRecords(store, calls'[c].userId) ]_vars

\* A Rotate succeeded, and a record of another principal that had expired
\* before the Rotate minted its replacement is still in the store.
C34_Witness ==
  \E c \in Calls : \E r, q \in store :
    /\ Regen(c) /\ Done(c) /\ q.id = calls[c].newId
    /\ r.userId # calls[c].userId /\ r.expiresAt < q.issuedAt

\* C35: with different access and refresh TTLs, a Rotate or Revoke presented
\* with an access token never gets past the lookup: no record matches, the
\* call revokes, deletes and inserts nothing, and if the token decoded the call
\* fails with the reuse error.
C35_AccessTokenNeverRotates ==
  AccessTTL # RefreshTTL =>
    \A c \in Calls :
      (calls[c].pc # "idle" /\ calls[c].tok \in AccessTokens) =>
        /\ calls[c].pc \in {"tx", "failed"}
        /\ calls[c].matched = 0 /\ calls[c].newId = 0
        /\ calls[c].txRevoked = {} /\ calls[c].txDeleted = {} /\ calls[c].applied = {}
        /\ (Fail(c) /\ Decoded(c))
             => calls[c].stage = "lookup" /\ calls[c].error = ErrReuse

====
